---- MODULE Spec2Model ----
(***************************************************************************)
(* Model of nanohelp/secret.py: class SecretManager, a wrapper around the  *)
(* Google Cloud Secret Manager client.                                     *)
(*                                                                         *)
(* Python str values are sequences of code points, bytes values are        *)
(* sequences of byte values.  A call is made by a caller (Call), then the  *)
(* handler body runs as one step (the method's action): every handler      *)
(* makes at most one state-changing call on the external store.            *)
(***************************************************************************)
EXTENDS Integers, Sequences, FiniteSets, TLC

\* ---------------------------------------------------------------- bounds
MaxVersions == 2
MaxTime == 3
TicksPerSecond == 2

\* ------------------------------------------------------ program constants
KeyBytes == 32
DefaultRotationTime == 60 * 60 * 24 * 30
DefaultVersion == "latest"

\* ------------------------------------------------------------ input sets
Callers == {"a", "b"}
Projects == {"p1"}
Names == {"wallet-a"}
Versions == {"latest", "v2"}
\* "ka", "kb" as code points
Keys == {<<107, 97>>, <<107, 98>>}
\* rotation_time is a number of seconds until the next rotation (>= 0)
RotationTimes == {1}
SampleBytes == {9, 171}

VARIABLES secrets, now, pc, frame, ret

vars == <<secrets, now, pc, frame, ret>>

\* ------------------------------------------------------- pure functions
\* "0123456789abcdef" as code points
HexDigits == <<48, 49, 50, 51, 52, 53, 54, 55, 56, 57, 97, 98, 99, 100, 101, 102>>

UpperHexDigits == <<48, 49, 50, 51, 52, 53, 54, 55, 56, 57, 65, 66, 67, 68, 69, 70>>

hexlify_upper(bytes) ==
  [i \in 1..(2 * Len(bytes)) |->
     LET b == bytes[(i + 1) \div 2]
     IN  IF i % 2 = 1 THEN UpperHexDigits[(b \div 16) + 1]
                      ELSE UpperHexDigits[(b % 16) + 1]]

\* bytes.hex(): two lowercase hexadecimal digits per byte, high nibble first
hexlify(bytes) ==
  [i \in 1..(2 * Len(bytes)) |->
     LET b == bytes[(i + 1) \div 2]
     IN  IF i % 2 = 1 THEN HexDigits[(b \div 16) + 1]
                      ELSE HexDigits[(b % 16) + 1]]

\* secrets.token_bytes(n): n bytes from the system random source (sampled)
token_bytes(n) ==
  { [i \in 1..n |-> IF i % 2 = 1 THEN b1 ELSE b2] : b1 \in SampleBytes, b2 \in SampleBytes }

\* secrets.token_hex(n): the possible results
token_hex(n) ==
  { hexlify(bs) : bs \in token_bytes(n) }

\* int(x) for x = num / TicksPerSecond: truncation toward zero
IntTrunc(num) ==
  IF num >= 0 THEN num \div TicksPerSecond ELSE -((-num) \div TicksPerSecond)

\* bytes.decode('UTF-8') on the sampled bytes: one-byte sequences (< 0x80)
\* decode to their code point; 0xF8..0xFF never occur in UTF-8.
DecodeOk(bytes) ==
  \A i \in 1..Len(bytes) : bytes[i] < 128

Decode(bytes) ==
  [i \in 1..Len(bytes) |-> bytes[i]]

\* ---------------------------------------------------- the external store
SecretVersionPath(project, name, version) ==
  <<project, name, version>>

Locators ==
  { SecretVersionPath(p, n, v) : p \in Projects, n \in Names, v \in Versions }

EmptyStore ==
  [l \in Locators |-> <<>>]

AddSecretVersion(store, parent, payload, seconds) ==
  [store EXCEPT ![parent] = Append(@, [payload |-> payload, next_rotation_time |-> seconds])]

\* secrets other tools put in the service before the program runs
InitialStores ==
  { EmptyStore,
    AddSecretVersion(EmptyStore, SecretVersionPath("p1", "wallet-a", "latest"), [data |-> <<107, 48>>], 0),
    AddSecretVersion(EmptyStore, SecretVersionPath("p1", "wallet-a", "latest"), [data |-> <<255>>], 0) }

TotalVersions(store) ==
  LET RECURSIVE Sum(_)
      Sum(S) == IF S = {} THEN 0
                ELSE LET l == CHOOSE x \in S : TRUE
                     IN  Len(store[l]) + Sum(S \ {l})
  IN  Sum(Locators)

\* ---------------------------------------------------------- call results
NoCause == ""

Pending ==
  [kind |-> "pending", value |-> <<>>, msg |-> "", cause |-> NoCause,
   calls |-> <<>>, generated |-> 0, env |-> "", missing |-> ""]

Return(kind, value, calls, generated) ==
  [kind |-> kind, value |-> value, msg |-> "", cause |-> NoCause,
   calls |-> calls, generated |-> generated, env |-> "", missing |-> ""]

Raise(kind, msg, cause, calls, generated) ==
  [kind |-> kind, value |-> <<>>, msg |-> msg, cause |-> cause,
   calls |-> calls, generated |-> generated, env |-> "", missing |-> ""]

NoFrame ==
  [op |-> "none", args |-> <<>>]

StoreEnvs == {"ok", "path_error", "add_error"}
GetEnvs == {"ok", "path_error", "access_error"}
MissingField == {"empty_bytes", "attribute_error"}

EnvCause(env) ==
  CASE env = "path_error" -> "PathError"
    [] env = "add_error" -> "ServiceError"
    [] env = "access_error" -> "ServiceError"
    [] OTHER -> NoCause

\* ------------------------------------------------------ argument binding
\* def store_private_key(self, project, name, private_key,
\*                       version='latest', rotation_time=60*60*24*30)
BindStore(args) ==
  IF Len(args) < 3
  THEN [error |-> TRUE, project |-> "", name |-> "", private_key |-> <<>>,
        version |-> "", rotation_time |-> 0]
  ELSE [error |-> FALSE, project |-> args[1], name |-> args[2], private_key |-> args[3],
        version |-> IF Len(args) >= 4 THEN args[4] ELSE DefaultVersion,
        rotation_time |-> IF Len(args) >= 5 THEN args[5] ELSE DefaultRotationTime]

\* def get_private_key(self, project, name, version="latest")
BindGet(args) ==
  [project |-> args[1], name |-> args[2],
   version |-> IF Len(args) >= 3 THEN args[3] ELSE DefaultVersion]

\* ------------------------------------------------------- handler bodies
\* Each body yields the call's outcome (ret) and the external store after it.

GenerateBody(key) ==
  [ret |-> Return("str", key, <<>>, 1), store |-> secrets]

StoreBody_partial(args, env) ==
  LET b == BindStore(args)
      secret == SecretVersionPath(b.project, b.name, b.version)
      written == AddSecretVersion(secrets, secret, [key |-> b.private_key],
                                  IntTrunc(now + b.rotation_time * TicksPerSecond))
  IN  IF b.error
      THEN [ret |-> Raise("TypeError", "missing required positional argument", NoCause, <<>>, 0),
            store |-> secrets]
      ELSE IF env = "path_error"
      THEN [ret |-> Raise("RuntimeError", "Unable to store secret", EnvCause(env),
                          <<"secret_version_path">>, 0),
            store |-> secrets]
      ELSE IF env = "add_error"
      THEN [ret |-> Raise("RuntimeError", "Unable to store secret", EnvCause(env),
                          <<"secret_version_path", "add_secret_version_with_rotation">>, 0),
            store |-> written]
      ELSE [ret |-> Return("None", <<>>,
                           <<"secret_version_path", "add_secret_version_with_rotation">>, 0),
            store |-> written]

StoreBody_norotation(args, env) ==
  LET b == BindStore(args)
      secret == SecretVersionPath(b.project, b.name, b.version)
  IN  IF b.error
      THEN [ret |-> Raise("TypeError", "missing required positional argument", NoCause, <<>>, 0),
            store |-> secrets]
      ELSE IF env = "path_error"
      THEN [ret |-> Raise("RuntimeError", "Unable to store secret", EnvCause(env),
                          <<"secret_version_path">>, 0),
            store |-> secrets]
      ELSE IF env = "add_error"
      THEN [ret |-> Raise("RuntimeError", "Unable to store secret", EnvCause(env),
                          <<"secret_version_path", "add_secret_version_with_rotation">>, 0),
            store |-> secrets]
      ELSE [ret |-> Return("None", <<>>,
                           <<"secret_version_path", "add_secret_version_with_rotation">>, 0),
            store |-> AddSecretVersion(secrets, secret, [key |-> b.private_key],
                                       IntTrunc(now))]

\* store_private_key: bind the arguments; inside the try, build the locator,
\* then add the version with payload {'key': private_key} and
\* next_rotation_time int(time.time() + rotation_time); any exception inside
\* the try becomes RuntimeError("Unable to store secret") from e.
StoreBody(args, env) ==
  LET b == BindStore(args)
      secret == SecretVersionPath(b.project, b.name, b.version)
  IN  IF b.error
      THEN [ret |-> Raise("TypeError", "missing required positional argument", NoCause, <<>>, 0),
            store |-> secrets]
      ELSE IF env = "path_error"
      THEN [ret |-> Raise("RuntimeError", "Unable to store secret", EnvCause(env),
                          <<"secret_version_path">>, 0),
            store |-> secrets]
      ELSE IF env = "add_error"
      THEN [ret |-> Raise("RuntimeError", "Unable to store secret", EnvCause(env),
                          <<"secret_version_path", "add_secret_version_with_rotation">>, 0),
            store |-> secrets]
      ELSE [ret |-> Return("None", <<>>,
                           <<"secret_version_path", "add_secret_version_with_rotation">>, 0),
            store |-> AddSecretVersion(secrets, secret, [key |-> b.private_key],
                                       IntTrunc(now + b.rotation_time * TicksPerSecond))]

\* generate_and_store_private_key: generate, then
\* self.store_private_key(user, private_key) with two positional arguments,
\* then return the key; an exception of the store call propagates.
GenerateAndStoreBody(user, key, env) ==
  LET r == StoreBody(<<user, key>>, env)
  IN  IF r.ret.kind # "None"
      THEN [ret |-> [r.ret EXCEPT !.generated = 1], store |-> r.store]
      ELSE [ret |-> Return("str", key, r.ret.calls, 1), store |-> r.store]

GetBody_swallow(args, env, missing) ==
  LET b == BindGet(args)
      name == SecretVersionPath(b.project, b.name, b.version)
      both == <<"secret_version_path", "access_secret_version">>
  IN  IF env = "path_error"
      THEN [ret |-> Raise("RuntimeError", "Unable to retrieve secret", EnvCause(env),
                          <<"secret_version_path">>, 0),
            store |-> secrets]
      ELSE IF env = "access_error"
      THEN [ret |-> Raise("RuntimeError", "Unable to retrieve secret", EnvCause(env), both, 0),
            store |-> secrets]
      ELSE IF secrets[name] = <<>>
      THEN [ret |-> Return("str", <<>>, both, 0), store |-> secrets]
      ELSE LET payload == secrets[name][Len(secrets[name])].payload
           IN  IF "data" \notin DOMAIN payload /\ missing = "attribute_error"
               THEN [ret |-> Raise("RuntimeError", "Unable to retrieve secret",
                                   "AttributeError", both, 0),
                     store |-> secrets]
               ELSE LET data == IF "data" \in DOMAIN payload THEN payload.data ELSE <<>>
                    IN  IF DecodeOk(data)
                        THEN [ret |-> Return("str", Decode(data), both, 0), store |-> secrets]
                        ELSE [ret |-> Raise("RuntimeError", "Unable to retrieve secret",
                                            "UnicodeDecodeError", both, 0),
                              store |-> secrets]

\* get_private_key: inside the try, build the locator, access the version
\* (the newest one held under the locator), read response.payload.data and
\* decode it as UTF-8; any exception becomes
\* RuntimeError("Unable to retrieve secret") from e.  A payload that carries
\* no data field reads as empty bytes or raises, as the client decides.
GetBody(args, env, missing) ==
  LET b == BindGet(args)
      name == SecretVersionPath(b.project, b.name, b.version)
      both == <<"secret_version_path", "access_secret_version">>
  IN  IF env = "path_error"
      THEN [ret |-> Raise("RuntimeError", "Unable to retrieve secret", EnvCause(env),
                          <<"secret_version_path">>, 0),
            store |-> secrets]
      ELSE IF env = "access_error"
      THEN [ret |-> Raise("RuntimeError", "Unable to retrieve secret", EnvCause(env), both, 0),
            store |-> secrets]
      ELSE IF secrets[name] = <<>>
      THEN [ret |-> Raise("RuntimeError", "Unable to retrieve secret", "NotFound", both, 0),
            store |-> secrets]
      ELSE LET payload == secrets[name][Len(secrets[name])].payload
           IN  IF "data" \notin DOMAIN payload /\ missing = "attribute_error"
               THEN [ret |-> Raise("RuntimeError", "Unable to retrieve secret",
                                   "AttributeError", both, 0),
                     store |-> secrets]
               ELSE LET data == IF "data" \in DOMAIN payload THEN payload.data ELSE <<>>
                    IN  IF DecodeOk(data)
                        THEN [ret |-> Return("str", Decode(data), both, 0), store |-> secrets]
                        ELSE [ret |-> Raise("RuntimeError", "Unable to retrieve secret",
                                            "UnicodeDecodeError", both, 0),
                              store |-> secrets]

RotateBody_deadcode(name) ==
  LET key == CHOOSE k \in token_hex(KeyBytes) : TRUE
      r == GenerateAndStoreBody(name, key, "ok")
  IN  IF r.ret.kind # "str"
      THEN [ret |-> Raise("RuntimeError", "Unable to rotate private key", r.ret.kind,
                          r.ret.calls, r.ret.generated),
            store |-> r.store]
      ELSE r

\* rotate_private_key: the unconditional raise; lines 135-139 are never run.
RotateBody(name) ==
  [ret |-> Raise("NotImplementedError", "No use case found for rotating private keys",
                 NoCause, <<>>, 0),
   store |-> secrets]

\* ------------------------------------------------------------------ Init
Init ==
  /\ secrets \in InitialStores
  /\ now = 0
  /\ pc = [c \in Callers |-> "idle"]
  /\ frame = [c \in Callers |-> NoFrame]
  /\ ret = [c \in Callers |-> Pending]

\* --------------------------------------------------------------- actions
Invoke(c, op, args) ==
  /\ pc[c] = "idle"
  /\ pc' = [pc EXCEPT ![c] = "called"]
  /\ frame' = [frame EXCEPT ![c] = [op |-> op, args |-> args]]
  /\ ret' = [ret EXCEPT ![c] = Pending]
  /\ UNCHANGED <<secrets, now>>

Complete(c, r, env, missing) ==
  /\ r.store # secrets => TotalVersions(secrets) < MaxVersions
  /\ secrets' = r.store
  /\ ret' = [ret EXCEPT ![c] = [r.ret EXCEPT !.env = env, !.missing = missing]]
  /\ pc' = [pc EXCEPT ![c] = "idle"]
  /\ UNCHANGED <<frame, now>>

\* a caller starts one of the five methods
Call(c) ==
  \/ Invoke(c, "generate_private_key", <<>>)
  \/ \E user \in Names : Invoke(c, "generate_and_store_private_key", <<user>>)
  \/ \E p \in Projects, n \in Names, k \in Keys :
       Invoke(c, "store_private_key", <<p, n, k>>)
  \/ \E p \in Projects, n \in Names, k \in Keys, v \in Versions :
       Invoke(c, "store_private_key", <<p, n, k, v>>)
  \/ \E p \in Projects, n \in Names, k \in Keys, v \in Versions, r \in RotationTimes :
       Invoke(c, "store_private_key", <<p, n, k, v, r>>)
  \/ \E p \in Projects, n \in Names : Invoke(c, "get_private_key", <<p, n>>)
  \/ \E p \in Projects, n \in Names, v \in Versions :
       Invoke(c, "get_private_key", <<p, n, v>>)
  \/ \E n \in Names : Invoke(c, "rotate_private_key", <<n>>)

\* concurrent callers working on one locator under the default version
CallLatest(c) ==
  \/ \E p \in Projects, n \in Names, k \in Keys :
       Invoke(c, "store_private_key", <<p, n, k>>)
  \/ \E p \in Projects, n \in Names : Invoke(c, "get_private_key", <<p, n>>)

generate_private_key(c) ==
  /\ pc[c] = "called" /\ frame[c].op = "generate_private_key"
  /\ \E key \in token_hex(KeyBytes) :
       Complete(c, GenerateBody(key), "", "")

generate_and_store_private_key(c) ==
  /\ pc[c] = "called" /\ frame[c].op = "generate_and_store_private_key"
  /\ \E key \in token_hex(KeyBytes), env \in StoreEnvs :
       Complete(c, GenerateAndStoreBody(frame[c].args[1], key, env), env, "")

store_private_key(c) ==
  /\ pc[c] = "called" /\ frame[c].op = "store_private_key"
  /\ \E env \in StoreEnvs :
       Complete(c, StoreBody(frame[c].args, env), env, "")

get_private_key(c) ==
  /\ pc[c] = "called" /\ frame[c].op = "get_private_key"
  /\ \E env \in GetEnvs, missing \in MissingField :
       Complete(c, GetBody(frame[c].args, env, missing), env, missing)

rotate_private_key(c) ==
  /\ pc[c] = "called" /\ frame[c].op = "rotate_private_key"
  /\ Complete(c, RotateBody(frame[c].args[1]), "", "")

\* time.time() advances
Tick ==
  /\ now < MaxTime
  /\ now' = now + 1
  /\ UNCHANGED <<secrets, pc, frame, ret>>

Next ==
  \/ Call("a")
  \/ generate_private_key("a")
  \/ generate_and_store_private_key("a")
  \/ store_private_key("a")
  \/ get_private_key("a")
  \/ rotate_private_key("a")
  \/ Tick

Spec == Init /\ [][Next]_vars

NextConc ==
  \E c \in Callers :
    \/ CallLatest(c)
    \/ store_private_key(c)
    \/ get_private_key(c)

SpecConc == Init /\ [][NextConc]_vars

\* ------------------------------------------------- vocabulary of the claims
\* A locator <<project, name, version>> is also the argument list of the
\* get_private_key call that addresses it.
Done(c, op) ==
  pc[c] = "idle" /\ frame[c].op = op /\ ret[c].kind # "pending"

Step(c, op) ==
  pc[c] = "called" /\ frame[c].op = op /\ pc'[c] = "idle"

StoreLocator(c) ==
  LET b == BindStore(frame[c].args) IN <<b.project, b.name, b.version>>

GetLocator(c) ==
  LET b == BindGet(frame[c].args) IN <<b.project, b.name, b.version>>

Newest(store, l) ==
  store[l][Len(store[l])]

WrittenByStore(version) ==
  "key" \in DOMAIN version.payload

\* the text a version was stored with
PayloadText(version) ==
  IF "key" \in DOMAIN version.payload THEN version.payload.key ELSE version.payload.data

IsLowerHex(ch) ==
  ch \in 48..57 \/ ch \in 97..102

\* ----------------------------------------------------------------- claims

\* C1: after store_private_key(project, name, key, version) has returned
\* without error, get_private_key(project, name, version), with no store to
\* that locator in between and no failure of the external store, returns
\* exactly the key that was stored.
C1_RoundTrip ==
  \A c \in Callers :
    (/\ Done(c, "get_private_key")
     /\ ret[c].env = "ok"
     /\ secrets[GetLocator(c)] # <<>>
     /\ WrittenByStore(Newest(secrets, GetLocator(c))))
    => /\ ret[c].kind = "str"
       /\ ret[c].value = Newest(secrets, GetLocator(c)).payload.key

\* C2: a successful store under one version label leaves the versions held
\* under every other locator as they were, and fetching such a locator by
\* its own label still returns the key last stored under it.
C2_VersionIsolation ==
  [][\A c \in Callers :
       (Step(c, "store_private_key") /\ ret'[c].kind = "None")
       => \A l \in Locators \ {StoreLocator(c)} :
            /\ secrets'[l] = secrets[l]
            /\ (secrets[l] # <<>> /\ WrittenByStore(Newest(secrets, l)))
               => \A missing \in MissingField :
                    LET r == GetBody(l, "ok", missing)'
                    IN  /\ r.ret.kind = "str"
                        /\ r.ret.value = Newest(secrets, l).payload.key]_vars

\* C3: when the external store fails during store_private_key (in the
\* locator construction or in the add-version call), the call ends with
\* RuntimeError "Unable to store secret" carrying the original cause, each
\* client method was called at most once (no retry), and the external
\* store holds exactly what it held before the call.
C3_StoreFailureAllOrNothing ==
  [][\A c \in Callers :
       (Step(c, "store_private_key") /\ ret'[c].env # "ok")
       => /\ ret'[c].kind = "RuntimeError"
          /\ ret'[c].msg = "Unable to store secret"
          /\ ret'[c].cause = EnvCause(ret'[c].env)
          /\ ret'[c].cause # NoCause
          /\ ret'[c].calls \in {<<"secret_version_path">>,
                                <<"secret_version_path", "add_secret_version_with_rotation">>}
          /\ secrets' = secrets]_vars

C3_Witness ==
  /\ Done("a", "store_private_key")
  /\ ret["a"].env = "add_error"
  /\ ret["a"].kind = "RuntimeError"
  /\ \E l \in Locators : secrets[l] # <<>> /\ WrittenByStore(Newest(secrets, l))

\* C4: when get_private_key addresses a locator that holds no version, or
\* the external store fails during the access, the call ends with
\* RuntimeError "Unable to retrieve secret" carrying the original cause and
\* returns no key; so fetching "v2" after a store under the default version
\* only raises the read failure.
C4_ReadFailure ==
  [][\A c \in Callers :
       (Step(c, "get_private_key") /\ (secrets[GetLocator(c)] = <<>> \/ ret'[c].env # "ok"))
       => /\ ret'[c].kind = "RuntimeError"
          /\ ret'[c].msg = "Unable to retrieve secret"
          /\ ret'[c].cause = (IF ret'[c].env # "ok" THEN EnvCause(ret'[c].env) ELSE "NotFound")
          /\ ret'[c].value = <<>>
          /\ secrets' = secrets]_vars

C4_Witness ==
  /\ Done("a", "get_private_key")
  /\ GetLocator("a") = <<"p1", "wallet-a", "v2">>
  /\ secrets[<<"p1", "wallet-a", "v2">>] = <<>>
  /\ secrets[<<"p1", "wallet-a", "latest">>] # <<>>
  /\ WrittenByStore(Newest(secrets, <<"p1", "wallet-a", "latest">>))
  /\ ret["a"].env = "ok"
  /\ ret["a"].kind = "RuntimeError"
  /\ ret["a"].cause = "NotFound"

C6_GenerateAndStore ==
  \A c \in Callers :
    (Done(c, "generate_and_store_private_key") /\ ret[c].env = "ok")
    => /\ ret[c].kind = "str"
       /\ Len(ret[c].value) = 64
       /\ \E l \in Locators :
            /\ l[2] = frame[c].args[1]
            /\ secrets[l] # <<>>
            /\ \E i \in 1..Len(secrets[l]) :
                 /\ WrittenByStore(secrets[l][i])
                 /\ secrets[l][i].payload.key = ret[c].value

\* C7: a failing call of generate_and_store_private_key fails with the
\* store failure (RuntimeError "Unable to store secret") and with no other
\* kind of error, and returns no key.
C7_GenerateAndStoreFailure ==
  \A c \in Callers :
    (Done(c, "generate_and_store_private_key") /\ ret[c].kind # "str")
    => /\ ret[c].kind = "RuntimeError"
       /\ ret[c].msg = "Unable to store secret"
       /\ ret[c].value = <<>>

\* C8: with callers storing and fetching the same locator under "latest"
\* in any interleaving, every successful get returns the text of some
\* version the external store has accepted, and a get made while no store
\* is in progress returns the text of the version accepted last.
C8_LastWriteWins ==
  [][\A c \in Callers :
       (Step(c, "get_private_key") /\ ret'[c].kind = "str")
       => /\ \E i \in 1..Len(secrets[GetLocator(c)]) :
               ret'[c].value = PayloadText(secrets[GetLocator(c)][i])
          /\ (\A d \in Callers : ~(pc[d] = "called" /\ frame[d].op = "store_private_key"))
             => ret'[c].value = PayloadText(Newest(secrets, GetLocator(c)))]_vars

\* C9: generate_private_key returns a string of exactly 64 characters, each
\* one of 0-9a-f, and calls no method of the external store's client.
C9_GeneratedKeyShape ==
  \A c \in Callers :
    Done(c, "generate_private_key")
    => /\ ret[c].kind = "str"
       /\ Len(ret[c].value) = 64
       /\ \A i \in 1..Len(ret[c].value) : IsLowerHex(ret[c].value[i])
       /\ ret[c].calls = <<>>

C9_Witness ==
  /\ Done("a", "generate_private_key")
  /\ \E i \in 1..Len(ret["a"].value) : ret["a"].value[i] \in 97..102
  /\ \E i \in 1..Len(ret["a"].value) : ret["a"].value[i] \in 48..57
  /\ \E l \in Locators : secrets[l] # <<>>

====
